---- MODULE Spec2Model ----
(***************************************************************************)
(* Model of the Editor component (src/src/components/editor.tsx): a React  *)
(* function component that mounts a Quill widget into a container div.     *)
(*                                                                         *)
(* One action is one synchronous React commit with its effects flushed     *)
(* (mount, re-render, unmount) or one click on a rendered button.          *)
(* Optional props are modelled as sequences of length <= 1: <<>> is an     *)
(* omitted prop, <<v>> is a supplied one.                                  *)
(***************************************************************************)
EXTENDS Integers, Sequences, FiniteSets, TLC

\* ---------------------------------------------------------------- bounds
MaxMounts == 2

\* ------------------------------------------------------------ input sets
None == <<>>
Some(v) == <<v>>

SubmitFns == {"submitA", "submitB"}
CancelFns == {None, Some("cancelA")}
Placeholders == {None, Some("Reply...")}
DefaultValues == {None, Some(<<"hello">>)}
DisabledVals == {None, Some(TRUE)}
Variants == {None, Some("create"), Some("update")}
InnerRefs == {None, Some("parentCell")}

EditorProps ==
    [onSubmit : SubmitFns, onCancel : CancelFns, placeholder : Placeholders,
     defaultValue : DefaultValues, disabled : DisabledVals,
     innerRef : InnerRefs, variant : Variants]

AllButtons == {"format", "emoji", "image", "cancel", "save", "send"}

VARIABLES
    mounted,       \* the component is currently mounted
    props,         \* raw props of the latest render
    cells,         \* the useRef cells of the component instance
    attached,      \* containerRef.current is an element
    children,      \* child elements of the container div, in order
    elements,      \* number of elements the component has created
    widgets,       \* every Quill instance constructed so far, in order
    hasCleanup,    \* the creation effect returned a cleanup function
    innerRefCell,  \* contents of the parent's reference cell (0 = null)
    buttons,       \* the action buttons of the latest render
    calls,         \* callbacks of the parent invoked so far, in order
    lastEvent,     \* the most recent step
    atMount,       \* onSubmit and defaultValue of the mounting render
    mounts,        \* number of mounts so far
    cleanups       \* number of runs of the creation effect's cleanup

vars == <<mounted, props, cells, attached, children, elements, widgets,
          hasCleanup, innerRefCell, buttons, calls, lastEvent, atMount,
          mounts, cleanups>>

\* ------------------------------------------------------- prop defaults
Default(opt, d) == IF opt = None THEN d ELSE opt[1]

\* destructuring defaults of the component's parameter list
Destructure(p) ==
    [onSubmit |-> p.onSubmit,
     onCancel |-> p.onCancel,
     placeholder |-> Default(p.placeholder, "Write something..."),
     defaultValue |-> Default(p.defaultValue, <<>>),
     disabled |-> Default(p.disabled, FALSE),
     innerRef |-> p.innerRef,
     variant |-> Default(p.variant, "create")]

\* ------------------------------------------------------------ the cells
\* cells of a component instance that does not exist
NoCells ==
    [submit |-> "none", placeholder |-> "none", defaultValue |-> <<>>,
     disabled |-> FALSE, quill |-> 0]

\* useRef(initial) of the first render
UseRefInit(d) ==
    [submit |-> d.onSubmit, placeholder |-> d.placeholder,
     defaultValue |-> d.defaultValue, disabled |-> d.disabled, quill |-> 0]

LayoutEffectStale(c, d) == c

\* useLayoutEffect without dependency list: runs after every render
LayoutEffect(c, d) ==
    [c EXCEPT !.submit = d.onSubmit, !.placeholder = d.placeholder,
              !.defaultValue = d.defaultValue, !.disabled = d.disabled]

\* ------------------------------------------------------------ rendering
RenderedButtonsSendAlways(variant) ==
    {"format", "emoji", "send"}
        \cup (IF variant = "create" THEN {"image"} ELSE {})
        \cup (IF variant = "update" THEN {"cancel", "save"} ELSE {})

\* the action row of the returned JSX
RenderedButtons(variant) ==
    {"format", "emoji"}
        \cup (IF variant = "create" THEN {"image"} ELSE {})
        \cup (IF variant = "update" THEN {"cancel", "save"} ELSE {})
        \cup (IF variant = "create" THEN {"send"} ELSE {})

\* disabled={false} on every Button
ButtonDisabled(b, disabledProp) == FALSE

OnClickSubmits(b, log, c) ==
    IF b \in {"send", "save"} THEN Append(log, c.submit) ELSE log

\* onClick={() => {}} on every Button
OnClick(b, log, c) == log

\* ------------------------------------------------------------ the widget
\* new Quill(editorContainer, options) on a fresh empty div
NewQuill(root, options) ==
    [root |-> root, theme |-> options.theme, contents |-> <<>>]

QuillOptions == [theme |-> "snow"]

\* the part of the state the creation effect and its cleanup work on
Dom == [attached |-> attached, children |-> children, elements |-> elements,
        widgets |-> widgets, hasCleanup |-> hasCleanup,
        innerRefCell |-> innerRefCell, cleanups |-> cleanups]

ContainerAbsentNever(isAttached) == FALSE

\* if (!containerRef.current) return;
ContainerAbsent(isAttached) == ~isAttached

InnerRefPublished(cell, innerRef, widget) ==
    IF innerRef = None THEN cell ELSE widget

\* the creation effect never writes innerRef.current
InnerRefAfterCreate(cell, innerRef, widget) == cell

\* body of the creation effect
CreationEffect(s, d) ==
    IF ContainerAbsent(s.attached)
    THEN s
    ELSE LET el == s.elements + 1
             ws == Append(s.widgets, NewQuill(el, QuillOptions))
         IN [s EXCEPT !.elements = el,
                      !.children = Append(s.children, el),
                      !.widgets = ws,
                      !.hasCleanup = TRUE,
                      !.innerRefCell =
                          InnerRefAfterCreate(s.innerRefCell, d.innerRef,
                                              Len(ws))]

ClearNothing(kids) == kids

\* container.innerHTML = ""
ClearContainer(kids) == <<>>

\* the function returned by the creation effect, when one was returned
RunCleanup(s) ==
    IF s.hasCleanup
    THEN [s EXCEPT !.children = ClearContainer(s.children),
                   !.hasCleanup = FALSE,
                   !.cleanups = s.cleanups + 1]
    ELSE s

EffectRunsEveryRender(firstRender) == TRUE

\* dependency list [] of the creation effect: it runs after the first
\* render of a mount only
EffectRuns(firstRender) == firstRender

\* useEffect after a render: cleanup of the previous run, then the body
UseEffect(s, d, firstRender) ==
    IF EffectRuns(firstRender)
    THEN CreationEffect(IF firstRender THEN s ELSE RunCleanup(s), d)
    ELSE s

SetDom(s) ==
    /\ attached' = s.attached
    /\ children' = s.children
    /\ elements' = s.elements
    /\ widgets' = s.widgets
    /\ hasCleanup' = s.hasCleanup
    /\ innerRefCell' = s.innerRefCell
    /\ cleanups' = s.cleanups

\* ----------------------------------------------------------------- Init
Init ==
    /\ mounted = FALSE
    /\ props = [onSubmit |-> "submitA", onCancel |-> None,
                placeholder |-> None, defaultValue |-> None,
                disabled |-> None, innerRef |-> None, variant |-> None]
    /\ cells = NoCells
    /\ attached = FALSE
    /\ children = <<>>
    /\ elements = 0
    /\ widgets = <<>>
    /\ hasCleanup = FALSE
    /\ innerRefCell = 0
    /\ buttons = {}
    /\ calls = <<>>
    /\ lastEvent = "none"
    /\ atMount = [onSubmit |-> "none", defaultValue |-> <<>>]
    /\ mounts = 0
    /\ cleanups = 0

\* -------------------------------------------------------------- actions
\* first render and commit of a new component instance; hostNode tells
\* whether the renderer gives the container div's ref an element
Mount(p, hostNode) ==
    /\ ~mounted
    /\ mounts < MaxMounts
    /\ LET d == Destructure(p)
           fresh == [Dom EXCEPT !.attached = hostNode, !.children = <<>>,
                                !.hasCleanup = FALSE]
       IN /\ cells' = LayoutEffect(UseRefInit(d), d)
          /\ buttons' = RenderedButtons(d.variant)
          /\ SetDom(UseEffect(fresh, d, TRUE))
          /\ atMount' = [onSubmit |-> d.onSubmit,
                         defaultValue |-> d.defaultValue]
    /\ mounted' = TRUE
    /\ props' = p
    /\ mounts' = mounts + 1
    /\ lastEvent' = "mount"
    /\ UNCHANGED calls

\* a later render of the mounted instance with new props
Rerender(p) ==
    /\ mounted
    /\ LET d == Destructure(p)
       IN /\ cells' = LayoutEffect(cells, d)
          /\ buttons' = RenderedButtons(d.variant)
          /\ SetDom(UseEffect(Dom, d, FALSE))
    /\ props' = p
    /\ lastEvent' = "render"
    /\ UNCHANGED <<mounted, calls, atMount, mounts>>

\* the instance is removed: effect cleanup runs, refs are detached
Unmount ==
    /\ mounted
    /\ SetDom([RunCleanup(Dom) EXCEPT !.attached = FALSE])
    /\ mounted' = FALSE
    /\ cells' = NoCells
    /\ buttons' = {}
    /\ lastEvent' = "unmount"
    /\ UNCHANGED <<props, calls, atMount, mounts>>

\* a click on a rendered button
Click(b) ==
    /\ mounted
    /\ b \in buttons
    /\ ~ButtonDisabled(b, Destructure(props).disabled)
    /\ calls' = OnClick(b, calls, cells)
    /\ lastEvent' = b
    /\ UNCHANGED <<mounted, props, cells, attached, children, elements,
                   widgets, hasCleanup, innerRefCell, buttons, atMount,
                   mounts, cleanups>>

MountDom == \E p \in EditorProps : Mount(p, TRUE)
MountAnyHost == \E p \in EditorProps : \E hostNode \in BOOLEAN : Mount(p, hostNode)
RerenderAny == \E p \in EditorProps : Rerender(p)
ClickAny == \E b \in AllButtons : Click(b)

\* under a DOM renderer the container ref is always an element
Next == MountDom \/ RerenderAny \/ Unmount \/ ClickAny
Spec == Init /\ [][Next]_vars

\* under a renderer without host nodes the container ref may stay null
NextHost == MountAnyHost \/ RerenderAny \/ Unmount \/ ClickAny
SpecHost == Init /\ [][NextHost]_vars

\* ------------------------------------------------------------- helpers
Range(seq) == {seq[i] : i \in 1..Len(seq)}

\* the widgets constructed against element el
WidgetsOn(el) == {i \in 1..Len(widgets) : widgets[i].root = el}

\* ------------------------------------------------------------ properties

\* C1: while the component is mounted its container holds exactly one
\* child element, created by the component, and exactly one widget has
\* been initialized against that child; while it is not mounted the
\* container holds no content.
C1_OneChildOneWidget ==
    /\ mounted =>
          /\ Len(children) = 1
          /\ children[1] \in 1..elements
          /\ Cardinality(WidgetsOn(children[1])) = 1
    /\ ~mounted => children = <<>>

C1_Witness ==
    /\ mounted
    /\ mounts = 2
    /\ lastEvent = "render"
    /\ props.variant = Some("update")
    /\ props.defaultValue # None
    /\ Len(children) = 1

\* C2: a re-render constructs no widget, creates no element and runs no
\* cleanup, and after every step the number of widgets constructed equals
\* the number of mounts.
C2_CreatedOncePerMount ==
    [][/\ lastEvent' = "render" =>
             /\ widgets' = widgets
             /\ elements' = elements
             /\ children' = children
             /\ cleanups' = cleanups
       /\ Len(widgets') = mounts']_vars

C2_Witness ==
    /\ mounted
    /\ mounts = 2
    /\ lastEvent = "render"
    /\ props.onSubmit # atMount.onSubmit
    /\ props.disabled = Some(TRUE)
    /\ props.placeholder # None
    /\ Len(widgets) = 2

\* C3: the rendered buttons depend on variant only: create (also when
\* variant is omitted) shows format, emoji, image and send; update shows
\* format, emoji, cancel and save; send never appears with cancel or save.
C3_ButtonsByVariant ==
    mounted =>
       /\ props.variant \in {None, Some("create")} =>
             buttons = {"format", "emoji", "image", "send"}
       /\ props.variant = Some("update") =>
             buttons = {"format", "emoji", "cancel", "save"}
       /\ ~("send" \in buttons /\ buttons \cap {"cancel", "save"} # {})

C3_Witness ==
    /\ mounted
    /\ lastEvent = "render"
    /\ props.variant = Some("update")
    /\ "save" \in buttons

\* C4: when onSubmit was replaced after mount and send is then clicked,
\* the newest onSubmit is the callback that is invoked.
C4_NewestOnSubmitInvoked ==
    (lastEvent = "send" /\ props.onSubmit # atMount.onSubmit) =>
        /\ calls # <<>>
        /\ calls[Len(calls)] = props.onSubmit

\* C5: while the component is mounted with innerRef supplied, the parent's
\* cell holds the widget constructed by this mount.
C5_InnerRefHoldsWidget ==
    (mounted /\ props.innerRef # None) =>
        /\ innerRefCell # 0
        /\ innerRefCell = Len(widgets)

C7_SeededWithMountDefault ==
    (mounted /\ attached) =>
        widgets[Len(widgets)].contents = atMount.defaultValue

\* C8: in every state in which a handler can run, the four latest-value
\* cells equal the (defaulted) props of the latest render, and keeping
\* them current has constructed no widget beyond the one per mount.
C8_CellsFollowProps ==
    mounted =>
       /\ cells.submit = props.onSubmit
       /\ cells.placeholder = Default(props.placeholder, "Write something...")
       /\ cells.defaultValue = Default(props.defaultValue, <<>>)
       /\ cells.disabled = Default(props.disabled, FALSE)
       /\ Len(widgets) = mounts

C8_Witness ==
    /\ mounted
    /\ lastEvent \in AllButtons
    /\ cells.submit # atMount.onSubmit
    /\ cells.defaultValue # atMount.defaultValue
    /\ cells.disabled = TRUE

\* C9: every rendered button can be clicked whatever disabled is, and a
\* click invokes no callback and leaves the widgets, the container's
\* content, the cells and the parent's cell unchanged.
C9_ClicksAreInert ==
    /\ [](mounted => \A b \in buttons : ENABLED Click(b))
    /\ [][lastEvent' \in AllButtons =>
             /\ calls' = <<>>
             /\ widgets' = widgets
             /\ children' = children
             /\ elements' = elements
             /\ cells' = cells
             /\ innerRefCell' = innerRefCell
             /\ cleanups' = cleanups]_vars

C9_Witness ==
    /\ mounted
    /\ lastEvent = "save"
    /\ props.disabled = Some(TRUE)
    /\ props.onCancel # None
    /\ calls = <<>>

\* C10: when the container element is absent at mount, the creation
\* effect appends no child, constructs no widget, registers no cleanup and
\* invokes no callback; the later unmount changes no container content,
\* runs no cleanup and touches no widget.
C10_AbsentContainerIsSilent ==
    [][/\ (mounted' /\ ~attached') =>
             /\ children' = <<>>
             /\ ~hasCleanup'
             /\ widgets' = widgets
             /\ elements' = elements
       /\ (~mounted /\ mounted' /\ ~attached') => calls' = calls
       /\ (mounted /\ ~attached /\ ~mounted') =>
             /\ children' = children
             /\ cleanups' = cleanups
             /\ widgets' = widgets]_vars

C10_Witness ==
    /\ ~mounted
    /\ lastEvent = "unmount"
    /\ mounts = 1
    /\ widgets = <<>>
    /\ elements = 0
    /\ cleanups = 0

====
